---- MODULE Spec2Model ----
(***************************************************************************)
(* State-machine model of cstable::CSTableReader                          *)
(* (src/eventql/io/cstable/CSTableReader.cc): opening a cstable file in    *)
(* either binary format, constructing one column decoder per column        *)
(* config, indexing the decoders by name and by id, the lookup operations  *)
(* and the release of the reader, of decoder handles and of the OS         *)
(* resources behind them.                                                  *)
(***************************************************************************)
EXTENDS Integers, Sequences, FiniteSets, TLC

VARIABLES
  pc,          \* "idle" | "ready" | "failed" | "destroyed": life of the reader
  file,        \* the on-disk file handed to the last openFile
  reader,      \* the fields of the CSTableReader object
  decoders,    \* the column decoders allocated by the last openFile, by position
  live,        \* positions of the decoders whose reference count is > 0
  handles,     \* RefPtr<ColumnReader> handles held by the caller, per position
  mmap,        \* the MmappedFile of a v0_1_0 open: "none" | "mapped" | "unmapped"
  page_mgr,    \* the PageManager of a v0_2_0 open: "none" | "alive" | "destroyed"
  os_fds,      \* descriptors currently open in the process
  file_fd,     \* descriptor the last File::openFile obtained (-1 before any)
  closes,      \* number of close() calls made on file_fd since it was obtained
  result       \* outcome of the last operation

vars == <<pc, file, reader, decoders, live, handles, mmap, page_mgr,
          os_fds, file_fd, closes, result>>

(***************************************************************************)
(* Bounds of the model.                                                    *)
(***************************************************************************)
MaxCols == 2
MaxHandles == 1
MaxFd == 1

(***************************************************************************)
(* Enumerations.  The enumerators are the ones the source names; their     *)
(* numeric values are those of the declarations in cstable.h.              *)
(***************************************************************************)
v0_1_0 == "v0_1_0"
v0_2_0 == "v0_2_0"

BOOLEAN_BITPACKED == 1
UINT32_BITPACKED == 10
UINT32_PLAIN == 11
UINT64_PLAIN == 12
UINT64_LEB128 == 13
FLOAT_IEEE754 == 14
STRING_PLAIN == 100

TYPE_BOOLEAN == 1
TYPE_UNSIGNED_INT == 2
TYPE_STRING == 4

\* storage tags outside the closed set
UnknownEncodings == {255}

\* (uint32_t) of an enumerator: a widening cast, which keeps the value
ToUInt32(tag) == tag

(***************************************************************************)
(* Inputs: the files openFile may be given.                                *)
(***************************************************************************)
Names == {"a", "b"}
Ids == {0, 1}
RowCounts == {3, 4}
Fds == 0 .. MaxFd
Versions == {v0_1_0, v0_2_0}

StorageTypes == {BOOLEAN_BITPACKED, UINT32_BITPACKED, UINT32_PLAIN, UINT64_PLAIN,
                 UINT64_LEB128, FLOAT_IEEE754, STRING_PLAIN} \cup UnknownEncodings
LogicalTypes == {TYPE_BOOLEAN, TYPE_UNSIGNED_INT, TYPE_STRING}

ColumnConfigs(names, ids, storage, logical, levels, offsets, sizes) ==
  [column_id : ids, column_name : names, storage_type : storage,
   logical_type : logical, rlevel_max : levels, dlevel_max : levels,
   body_offset : offsets, body_size : sizes]

\* columns of the headers with several columns: names and ids repeat, and
\* each format meets both supported and unsupported types
HeaderColumns ==
  { c \in ColumnConfigs(Names, Ids, {UINT64_PLAIN, STRING_PLAIN} \cup UnknownEncodings,
                        {TYPE_UNSIGNED_INT, TYPE_STRING}, {1}, {16}, {8}) :
      \/ c.storage_type = UINT64_PLAIN /\ c.logical_type = TYPE_UNSIGNED_INT
      \/ c.storage_type = STRING_PLAIN /\ c.logical_type = TYPE_STRING
      \/ c.storage_type \in UnknownEncodings /\ c.logical_type = TYPE_UNSIGNED_INT }

\* columns of the single-column headers: every type tag and level maximum
DispatchColumns ==
  ColumnConfigs({"a"}, {1}, StorageTypes, LogicalTypes, {0, 1}, {0, 16}, {8})

RECURSIVE SeqsUpTo(_, _)
SeqsUpTo(S, n) ==
  IF n = 0 THEN {<<>>}
  ELSE LET shorter == SeqsUpTo(S, n - 1) IN
       shorter \cup { Append(s, x) : s \in {t \in shorter : Len(t) = n - 1}, x \in S }

Headers == SeqsUpTo(HeaderColumns, MaxCols) \cup { <<c>> : c \in DispatchColumns }

(***************************************************************************)
(* Values.                                                                 *)
(***************************************************************************)
EmptyMap == [k \in {} |-> 0]

\* an insertion that replaces the entry of a key already present
EmplaceOverwrite(m, k, v) == [x \in DOMAIN m \cup {k} |-> IF x = k THEN v ELSE m[x]]

\* emplace of the standard maps: inserts only when the key is not yet present
Emplace(m, k, v) == IF k \in DOMAIN m THEN m ELSE m @@ (k :> v)

Range(m) == { m[k] : k \in DOMAIN m }

NoError == [type |-> "none", tag |-> -1]
NoDecoder ==
  [class |-> "none", rmax |-> 0, dmax |-> 0, cdata |-> 0, csize |-> 0,
   rlevel_reader |-> FALSE, dlevel_reader |-> FALSE,
   page_mgr |-> FALSE, mmap |-> FALSE]

\* a v1 decoder: new v1::XColumnReader(rmax, dmax, cdata, csize)
V1Reader(class, rmax, dmax, cdata, csize) ==
  [class |-> class, rmax |-> rmax, dmax |-> dmax, cdata |-> cdata, csize |-> csize,
   rlevel_reader |-> FALSE, dlevel_reader |-> FALSE,
   page_mgr |-> FALSE, mmap |-> FALSE]

Returned(r) == [ok |-> TRUE, reader |-> r, error |-> NoError]
Raised(type, tag) == [ok |-> FALSE, reader |-> NoDecoder,
                      error |-> [type |-> type, tag |-> tag]]

(***************************************************************************)
(* openColumnV1: dispatch on storage_type.                                 *)
(***************************************************************************)
openColumnV1_NoString(c) ==
  LET csize == c.body_size
      cdata == c.body_offset
      rmax == c.rlevel_max
      dmax == c.dlevel_max
  IN  CASE c.storage_type = BOOLEAN_BITPACKED ->
             Returned(V1Reader("v1::BooleanColumnReader", rmax, dmax, cdata, csize))
        [] c.storage_type = UINT32_BITPACKED ->
             Returned(V1Reader("v1::BitPackedIntColumnReader", rmax, dmax, cdata, csize))
        [] c.storage_type = UINT32_PLAIN ->
             Returned(V1Reader("v1::UInt32ColumnReader", rmax, dmax, cdata, csize))
        [] c.storage_type = UINT64_PLAIN ->
             Returned(V1Reader("v1::UInt64ColumnReader", rmax, dmax, cdata, csize))
        [] c.storage_type = UINT64_LEB128 ->
             Returned(V1Reader("v1::LEB128ColumnReader", rmax, dmax, cdata, csize))
        [] c.storage_type = FLOAT_IEEE754 ->
             Returned(V1Reader("v1::DoubleColumnReader", rmax, dmax, cdata, csize))
        [] OTHER -> Raised("kRuntimeError", ToUInt32(c.storage_type))

openColumnV1(c) ==
  LET csize == c.body_size
      cdata == c.body_offset
      rmax == c.rlevel_max
      dmax == c.dlevel_max
  IN  CASE c.storage_type = BOOLEAN_BITPACKED ->
             Returned(V1Reader("v1::BooleanColumnReader", rmax, dmax, cdata, csize))
        [] c.storage_type = UINT32_BITPACKED ->
             Returned(V1Reader("v1::BitPackedIntColumnReader", rmax, dmax, cdata, csize))
        [] c.storage_type = UINT32_PLAIN ->
             Returned(V1Reader("v1::UInt32ColumnReader", rmax, dmax, cdata, csize))
        [] c.storage_type = UINT64_PLAIN ->
             Returned(V1Reader("v1::UInt64ColumnReader", rmax, dmax, cdata, csize))
        [] c.storage_type = UINT64_LEB128 ->
             Returned(V1Reader("v1::LEB128ColumnReader", rmax, dmax, cdata, csize))
        [] c.storage_type = FLOAT_IEEE754 ->
             Returned(V1Reader("v1::DoubleColumnReader", rmax, dmax, cdata, csize))
        [] c.storage_type = STRING_PLAIN ->
             Returned(V1Reader("v1::StringColumnReader", rmax, dmax, cdata, csize))
        [] OTHER -> Raised("kRuntimeError", ToUInt32(c.storage_type))

(***************************************************************************)
(* openColumnV2: optional level page readers, dispatch on logical_type.    *)
(* dlevel_reader is declared and never assigned, so it is passed empty;    *)
(* the diagnostic of the default arm is built from c.storage_type.         *)
(***************************************************************************)
openColumnV2(c) ==
  LET rlevel_reader == c.rlevel_max > 0
      dlevel_reader == FALSE
  IN  IF c.logical_type = TYPE_UNSIGNED_INT
      THEN Returned([class |-> "UnsignedIntColumnReader",
                     rmax |-> c.rlevel_max, dmax |-> c.dlevel_max,
                     cdata |-> c.body_offset, csize |-> c.body_size,
                     rlevel_reader |-> rlevel_reader,
                     dlevel_reader |-> dlevel_reader,
                     page_mgr |-> TRUE, mmap |-> FALSE])
      ELSE Raised("kRuntimeError", ToUInt32(c.storage_type))

(***************************************************************************)
(* The two column loops of openFile.  A raise leaves the loop: the vector  *)
(* built so far is dropped with the frame.                                 *)
(***************************************************************************)
\* reader->storeMmap(mmap.get())
storeMmap(r) == [r EXCEPT !.mmap = TRUE]

RECURSIVE SkipFailedColumnsV1(_, _)
SkipFailedColumnsV1(columns, column_readers) ==
  IF Len(column_readers) = Len(columns)
  THEN [ok |-> TRUE, readers |-> column_readers, error |-> NoError]
  ELSE LET r == openColumnV1(columns[Len(column_readers) + 1]) IN
       SkipFailedColumnsV1(columns,
         Append(column_readers, IF r.ok THEN storeMmap(r.reader) ELSE NoDecoder))

RECURSIVE openColumnsV1(_, _)
openColumnsV1(columns, column_readers) ==
  IF Len(column_readers) = Len(columns)
  THEN [ok |-> TRUE, readers |-> column_readers, error |-> NoError]
  ELSE LET r == openColumnV1(columns[Len(column_readers) + 1]) IN
       IF r.ok
       THEN openColumnsV1(columns, Append(column_readers, storeMmap(r.reader)))
       ELSE [ok |-> FALSE, readers |-> <<>>, error |-> r.error]

RECURSIVE openColumnsV2(_, _)
openColumnsV2(columns, column_readers) ==
  IF Len(column_readers) = Len(columns)
  THEN [ok |-> TRUE, readers |-> column_readers, error |-> NoError]
  ELSE LET r == openColumnV2(columns[Len(column_readers) + 1]) IN
       IF r.ok
       THEN openColumnsV2(columns, Append(column_readers, r.reader))
       ELSE [ok |-> FALSE, readers |-> <<>>, error |-> r.error]

(***************************************************************************)
(* CSTableReader::CSTableReader: the two indices map a key to the position *)
(* of the decoder it refers to.                                            *)
(***************************************************************************)
RECURSIVE IndexById(_, _)
IndexById(columns, n) ==
  IF n = 0 THEN EmptyMap
  ELSE LET m == IndexById(columns, n - 1) IN
       IF columns[n].column_id > 0 THEN Emplace(m, columns[n].column_id, n) ELSE m

RECURSIVE IndexByNameIfId(_, _)
IndexByNameIfId(columns, n) ==
  IF n = 0 THEN EmptyMap
  ELSE LET m == IndexByNameIfId(columns, n - 1) IN
       IF columns[n].column_id > 0 THEN Emplace(m, columns[n].column_name, n) ELSE m

RECURSIVE IndexByName(_, _)
IndexByName(columns, n) ==
  IF n = 0 THEN EmptyMap
  ELSE Emplace(IndexByName(columns, n - 1), columns[n].column_name, n)

NewReader(version, has_page_mgr, columns, num_rows, fd) ==
  [version_ |-> version,
   page_mgr_ |-> has_page_mgr,
   columns_ |-> columns,
   num_rows_ |-> num_rows,
   fd_ |-> fd,
   column_readers_by_id_ |-> IndexById(columns, Len(columns)),
   column_readers_by_name_ |-> IndexByName(columns, Len(columns))]

\* the reader object before construction and after destruction
NoReader ==
  [version_ |-> "none", page_mgr_ |-> FALSE, columns_ |-> <<>>, num_rows_ |-> 0,
   fd_ |-> -1, column_readers_by_id_ |-> EmptyMap,
   column_readers_by_name_ |-> EmptyMap]

\* the row count openFile hands the constructor
NumRowsFromHeader(version, header_rows, meta_rows) == header_rows
NumRows(version, header_rows, meta_rows) ==
  IF version = v0_1_0 THEN header_rows ELSE meta_rows

(***************************************************************************)
(* Reference counting (RefPtr) and the descriptor.                         *)
(***************************************************************************)
\* references to decoder i: index entries of reader r plus caller handles h
RefCount(r, h, i) ==
  Cardinality({ k \in DOMAIN r.column_readers_by_name_ :
                  r.column_readers_by_name_[k] = i })
  + Cardinality({ k \in DOMAIN r.column_readers_by_id_ :
                    r.column_readers_by_id_[k] = i })
  + h[i]

Referenced(r, h, n) == { i \in 1 .. n : RefCount(r, h, i) > 0 }

\* the mapping lasts while a decoder that stored it is alive
MmapAfter(was, alive) ==
  IF was = "mapped" /\ alive = {} THEN "unmapped" ELSE was

\* File::~File closes a descriptor it still owns
FileCloses(fd) == fd >= 0

\* CSTableReader::~CSTableReader: if (fd_ > 0) close(fd_)
ReaderCloses(fd) == fd > 0

TotalHandles == Cardinality({ <<i, k>> \in (1 .. Len(decoders)) \X (1 .. MaxHandles) :
                               k <= handles[i] })

NoHandles(n) == [i \in 1 .. n |-> 0]

Result(op, ok, err, tag, name, value, flag, handle) ==
  [op |-> op, ok |-> ok, err |-> err, tag |-> tag, name |-> name,
   value |-> value, flag |-> flag, handle |-> handle]

NoFile == [version |-> "none", columns |-> <<>>, header_rows |-> 0, meta_rows |-> 0]

(***************************************************************************)
(* Initial state: no file opened yet.                                      *)
(***************************************************************************)
Init ==
  /\ pc = "idle"
  /\ file = NoFile
  /\ reader = NoReader
  /\ decoders = <<>>
  /\ live = {}
  /\ handles = NoHandles(0)
  /\ mmap = "none"
  /\ page_mgr = "none"
  /\ os_fds = {}
  /\ file_fd = -1
  /\ closes = 0
  /\ result = Result("none", TRUE, "none", -1, "", -1, FALSE, 0)

(***************************************************************************)
(* CSTableReader::openFile.  fd is the descriptor File::openFile obtains.  *)
(* One reader is tracked at a time (see Retry).                            *)
(***************************************************************************)
OpenFailed(error) ==
  /\ pc' = "failed"
  /\ reader' = NoReader
  /\ decoders' = <<>>
  /\ live' = {}
  /\ handles' = NoHandles(0)
  /\ result' = Result("openFile", FALSE, error.type, error.tag, "", -1, FALSE, 0)

OpenedV1(columns, column_readers, num_rows) ==
  LET r == NewReader(v0_1_0, FALSE, columns, num_rows, -1)
      n == Len(column_readers)
      alive == Referenced(r, NoHandles(n), n)
  IN  /\ pc' = "ready"
      /\ reader' = r
      /\ decoders' = column_readers
      /\ live' = alive
      /\ handles' = NoHandles(n)
      /\ mmap' = MmapAfter("mapped", alive)
      /\ result' = Result("openFile", TRUE, "none", -1, "", -1, FALSE, 0)

OpenedV2(columns, column_readers, num_rows, fd) ==
  LET r == NewReader(v0_2_0, TRUE, columns, num_rows, fd)
      n == Len(column_readers)
  IN  /\ pc' = "ready"
      /\ reader' = r
      /\ decoders' = column_readers
      /\ live' = Referenced(r, NoHandles(n), n)
      /\ handles' = NoHandles(n)
      /\ page_mgr' = "alive"
      /\ result' = Result("openFile", TRUE, "none", -1, "", -1, FALSE, 0)

OpenFile(version, columns, header_rows, meta_rows, fd) ==
  /\ pc = "idle"
  /\ fd \notin os_fds
  /\ file' = [version |-> version, columns |-> columns,
              header_rows |-> header_rows, meta_rows |-> meta_rows]
  /\ file_fd' = fd
  /\ IF version = v0_1_0
     THEN \* the MmappedFile takes the File over and closes its descriptor
          LET built == openColumnsV1(columns, <<>>) IN
          /\ os_fds' = IF FileCloses(fd) THEN os_fds ELSE os_fds \cup {fd}
          /\ closes' = IF FileCloses(fd) THEN 1 ELSE 0
          /\ page_mgr' = "none"
          /\ IF built.ok
             THEN OpenedV1(columns, built.readers,
                           NumRows(version, header_rows, meta_rows))
             ELSE OpenFailed(built.error) /\ mmap' = "unmapped"
     ELSE LET built == openColumnsV2(columns, <<>>) IN
          /\ mmap' = "none"
          /\ IF built.ok
             THEN \* file.releaseFD(): the reader takes the descriptor
                  /\ OpenedV2(columns, built.readers,
                              NumRows(version, header_rows, meta_rows), fd)
                  /\ os_fds' = os_fds \cup {fd}
                  /\ closes' = 0
             ELSE \* unwinding destroys page_mgr, then file, which still owns fd
                  /\ OpenFailed(built.error)
                  /\ page_mgr' = "destroyed"
                  /\ os_fds' = IF FileCloses(fd) THEN os_fds ELSE os_fds \cup {fd}
                  /\ closes' = IF FileCloses(fd) THEN 1 ELSE 0

(***************************************************************************)
(* CSTableReader::~CSTableReader, run when the last RefPtr<CSTableReader>  *)
(* is dropped: the body closes fd_, then the members go (the two indices   *)
(* with their decoder references, and page_mgr_).                          *)
(***************************************************************************)
DestroyReader ==
  /\ pc = "ready"
  /\ pc' = "destroyed"
  /\ closes' = IF ReaderCloses(reader.fd_) THEN closes + 1 ELSE closes
  /\ os_fds' = IF ReaderCloses(reader.fd_) THEN os_fds \ {reader.fd_} ELSE os_fds
  /\ reader' = NoReader
  /\ live' = Referenced(NoReader, handles, Len(decoders))
  /\ mmap' = MmapAfter(mmap, live')
  /\ page_mgr' = IF reader.page_mgr_ THEN "destroyed" ELSE page_mgr
  /\ result' = Result("~CSTableReader", TRUE, "none", -1, "", -1, FALSE, 0)
  /\ UNCHANGED <<file, decoders, handles, file_fd>>

(***************************************************************************)
(* CSTableReader::getColumnReader: the caller keeps the returned handle.   *)
(***************************************************************************)
GetColumnReader(column_name) ==
  /\ pc = "ready"
  /\ IF column_name \notin DOMAIN reader.column_readers_by_name_
     THEN /\ result' = Result("getColumnReader", FALSE, "kNotFoundError", -1,
                              column_name, -1, FALSE, 0)
          /\ UNCHANGED handles
     ELSE LET col == reader.column_readers_by_name_[column_name] IN
          /\ TotalHandles < MaxHandles
          /\ handles' = [handles EXCEPT ![col] = @ + 1]
          /\ result' = Result("getColumnReader", TRUE, "none", -1,
                              column_name, -1, FALSE, col)
  /\ UNCHANGED <<pc, file, reader, decoders, live, mmap, page_mgr,
                 os_fds, file_fd, closes>>

\* CSTableReader::hasColumn
HasColumn(column_name) ==
  /\ pc = "ready"
  /\ result' = Result("hasColumn", TRUE, "none", -1, column_name, -1,
                      column_name \in DOMAIN reader.column_readers_by_name_, 0)
  /\ UNCHANGED <<pc, file, reader, decoders, live, handles, mmap, page_mgr,
                 os_fds, file_fd, closes>>

\* CSTableReader::numRecords
NumRecords ==
  /\ pc = "ready"
  /\ result' = Result("numRecords", TRUE, "none", -1, "", reader.num_rows_, FALSE, 0)
  /\ UNCHANGED <<pc, file, reader, decoders, live, handles, mmap, page_mgr,
                 os_fds, file_fd, closes>>

\* the caller drops one RefPtr<ColumnReader> it holds
ReleaseHandle(i) ==
  /\ i \in DOMAIN handles
  /\ handles[i] > 0
  /\ handles' = [handles EXCEPT ![i] = @ - 1]
  /\ live' = Referenced(reader, handles', Len(decoders))
  /\ mmap' = MmapAfter(mmap, live')
  /\ result' = Result("release", TRUE, "none", -1, "", -1, FALSE, i)
  /\ UNCHANGED <<pc, file, reader, decoders, page_mgr, os_fds, file_fd, closes>>

(***************************************************************************)
(* The caller is done with an attempt (the reader is gone or was never     *)
(* returned, and every handle taken from it is released) and turns to the  *)
(* next openFile.  Nothing of the attempt remains but the descriptors it   *)
(* left open in the process.                                               *)
(***************************************************************************)
Retry ==
  /\ pc \in {"failed", "destroyed"}
  /\ live = {}
  /\ pc' = "idle"
  /\ file' = NoFile
  /\ decoders' = <<>>
  /\ handles' = NoHandles(0)
  /\ mmap' = "none"
  /\ page_mgr' = "none"
  /\ file_fd' = -1
  /\ closes' = 0
  /\ result' = Result("none", TRUE, "none", -1, "", -1, FALSE, 0)
  /\ UNCHANGED <<reader, live, os_fds>>

Next ==
  \/ /\ pc = "idle"
     /\ \E version \in Versions, columns \in Headers,
           header_rows \in RowCounts, meta_rows \in RowCounts, fd \in Fds :
          OpenFile(version, columns, header_rows, meta_rows, fd)
  \/ DestroyReader
  \/ \E column_name \in Names : GetColumnReader(column_name)
  \/ \E column_name \in Names : HasColumn(column_name)
  \/ NumRecords
  \/ \E i \in 1 .. MaxCols : ReleaseHandle(i)
  \/ Retry

Spec == Init /\ [][Next]_vars

(***************************************************************************)
(* Vocabulary of the properties, stated over the file on disk.             *)
(***************************************************************************)
Positions == 1 .. Len(file.columns)

WithName(name) == { i \in Positions : file.columns[i].column_name = name }

Least(S) == CHOOSE i \in S : \A j \in S : i <= j
Greatest(S) == CHOOSE i \in S : \A j \in S : j <= i

SupportedV1 == {BOOLEAN_BITPACKED, UINT32_BITPACKED, UINT32_PLAIN, UINT64_PLAIN,
                UINT64_LEB128, FLOAT_IEEE754, STRING_PLAIN}

ExpectedV1Class ==
  (BOOLEAN_BITPACKED :> "v1::BooleanColumnReader")
    @@ (UINT32_BITPACKED :> "v1::BitPackedIntColumnReader")
    @@ (UINT32_PLAIN :> "v1::UInt32ColumnReader")
    @@ (UINT64_PLAIN :> "v1::UInt64ColumnReader")
    @@ (UINT64_LEB128 :> "v1::LEB128ColumnReader")
    @@ (FLOAT_IEEE754 :> "v1::DoubleColumnReader")
    @@ (STRING_PLAIN :> "v1::StringColumnReader")

UnsupportedV1 == { i \in Positions : file.columns[i].storage_type \notin SupportedV1 }
UnsupportedV2 == { i \in Positions : file.columns[i].logical_type # TYPE_UNSIGNED_INT }
Unsupported == IF file.version = v0_1_0 THEN UnsupportedV1 ELSE UnsupportedV2

(***************************************************************************)
(* C1: a name is found exactly when some column config of the header       *)
(* carries it: hasColumn returns that truth value and never fails;         *)
(* getColumnReader returns a live decoder for such a name and raises       *)
(* kNotFoundError for any other.                                           *)
(***************************************************************************)
C1_NameLookup ==
  /\ result.op = "hasColumn" =>
       /\ result.ok
       /\ result.flag = (WithName(result.name) # {})
  /\ result.op = "getColumnReader" =>
       IF WithName(result.name) # {}
       THEN /\ result.ok
            /\ result.handle \in live
            /\ decoders[result.handle].class # "none"
       ELSE /\ ~result.ok
            /\ result.err = "kNotFoundError"

C1_Witness ==
  /\ result.op = "getColumnReader"
  /\ result.ok
  /\ Len(file.columns) >= 2
  /\ file.columns[result.handle].column_id = 0

(***************************************************************************)
(* C2: numRecords() returns FileHeader.num_rows for a v0_1_0 file and      *)
(* MetaBlock.num_rows for a v0_2_0 file, and the reader's row count does   *)
(* not change while the reader lives.                                      *)
(***************************************************************************)
C2_NumRecords ==
  /\ [](result.op = "numRecords" =>
          result.value = IF file.version = v0_1_0 THEN file.header_rows
                         ELSE file.meta_rows)
  /\ [][(pc = "ready" /\ pc' = "ready") => reader'.num_rows_ = reader.num_rows_]_vars

C2_Witness ==
  /\ result.op = "numRecords"
  /\ file.version = v0_2_0
  /\ file.header_rows # file.meta_rows
  /\ TotalHandles > 0

(***************************************************************************)
(* C3: opening a v0_1_0 file with a column whose storage_type is outside   *)
(* the seven supported encodings raises an error carrying that             *)
(* storage_type's number and returns no reader; otherwise column i gets    *)
(* the one decoder of its encoding, built from its rlevel_max, dlevel_max, *)
(* body_offset and body_size.                                              *)
(***************************************************************************)
C3_V1Dispatch ==
  (result.op = "openFile" /\ file.version = v0_1_0) =>
    IF UnsupportedV1 # {}
    THEN /\ ~result.ok
         /\ result.err = "kRuntimeError"
         /\ result.tag = file.columns[Least(UnsupportedV1)].storage_type
         /\ pc = "failed"
         /\ reader = NoReader
    ELSE /\ result.ok
         /\ pc = "ready"
         /\ Len(decoders) = Len(file.columns)
         /\ \A i \in Positions :
              /\ decoders[i].class = ExpectedV1Class[file.columns[i].storage_type]
              /\ decoders[i].rmax = file.columns[i].rlevel_max
              /\ decoders[i].dmax = file.columns[i].dlevel_max
              /\ decoders[i].cdata = file.columns[i].body_offset
              /\ decoders[i].csize = file.columns[i].body_size

C3_Witness ==
  /\ result.op = "openFile"
  /\ file.version = v0_1_0
  /\ ~result.ok
  /\ result.tag \in UnknownEncodings
  /\ Len(file.columns) = 1

(***************************************************************************)
(* C4: opening a v0_2_0 file with a column whose logical_type is not       *)
(* UNSIGNED_INT raises an error carrying the number of that logical_type.  *)
(***************************************************************************)
C4_V2DiagnosticIsLogicalType ==
  (result.op = "openFile" /\ file.version = v0_2_0 /\ UnsupportedV2 # {}) =>
    /\ ~result.ok
    /\ result.err = "kRuntimeError"
    /\ result.tag = file.columns[Least(UnsupportedV2)].logical_type

(***************************************************************************)
(* C5: a v0_2_0 decoder has an RLEVEL page reader exactly when its         *)
(* column's rlevel_max > 0 and a DLEVEL page reader exactly when its       *)
(* column's dlevel_max > 0.                                                *)
(***************************************************************************)
C5_LevelReaders ==
  (pc = "ready" /\ file.version = v0_2_0) =>
    \A i \in Positions :
      /\ decoders[i].rlevel_reader = (file.columns[i].rlevel_max > 0)
      /\ decoders[i].dlevel_reader = (file.columns[i].dlevel_max > 0)

C7_ClosedExactlyOnce ==
  /\ closes <= 1
  /\ pc = "destroyed" => (closes = 1 /\ file_fd \notin os_fds)

(***************************************************************************)
(* C8: no decoder that is still referenced has lost its backing storage    *)
(* (the mapping for v0_1_0; the page manager and its descriptor for        *)
(* v0_2_0).                                                                *)
(***************************************************************************)
C8_StorageOutlivesDecoders ==
  \A i \in live :
    /\ decoders[i].mmap => mmap = "mapped"
    /\ decoders[i].page_mgr => (page_mgr = "alive" /\ file_fd \in os_fds)

(***************************************************************************)
(* C9: a constructed reader holds one decoder per column config, a column  *)
(* with column_id 0 adds nothing to the id index, and every decoder in the *)
(* id index is in the name index too.                                      *)
(***************************************************************************)
C9_IndexInvariants ==
  pc = "ready" =>
    /\ live = 1 .. Len(reader.columns_)
    /\ 0 \notin DOMAIN reader.column_readers_by_id_
    /\ Range(reader.column_readers_by_id_) \subseteq Range(reader.column_readers_by_name_)

(***************************************************************************)
(* C10: openFile returns a reader only when every column dispatches; when  *)
(* one does not, no reader and no decoder remain, the backing storage is   *)
(* gone and the descriptor of the attempt was closed exactly once.  A      *)
(* failed getColumnReader leaves the reader as it was.                     *)
(***************************************************************************)
C10_AllOrNothing ==
  /\ [](result.op = "openFile" =>
          /\ result.ok = (Unsupported = {})
          /\ ~result.ok =>
               /\ pc = "failed"
               /\ reader = NoReader
               /\ decoders = <<>>
               /\ live = {}
               /\ mmap # "mapped"
               /\ page_mgr # "alive"
               /\ closes = 1
               /\ file_fd \notin os_fds)
  /\ [][(result'.op = "getColumnReader" /\ ~result'.ok) =>
          UNCHANGED <<pc, file, reader, decoders, live, handles, mmap, page_mgr,
                      os_fds, file_fd, closes>>]_vars

C10_Witness ==
  /\ pc = "failed"
  /\ Len(file.columns) = 2
  /\ Unsupported = {2}

====
